---- MODULE Spec2Model ----
(***************************************************************************)
(* CodeExecutor (src/code_executor.py): validation of a code string, the   *)
(* restricted namespace, the run on a worker thread under a timed join,     *)
(* the process-wide redirect of sys.stdout / sys.stderr, and the result     *)
(* dictionary.  Text is a sequence of one-character strings.                *)
(***************************************************************************)
EXTENDS Integers, Sequences, FiniteSets, TLC

\* ---------------------------------------------------------------- bounds
\* Number of execute_code calls made on the one CodeExecutor of app.py.
NumRequests == 2

\* Config.MAX_EXECUTION_TIME (src/config.py:19, 10 seconds), in clock ticks,
\* scaled down.
max_execution_time == 2

\* Config.MAX_OUTPUT_LENGTH (src/config.py:20, 10000 characters), scaled down.
max_output_length == 3

\* Nesting depth beyond which CPython's compile() raises RecursionError
\* (about the interpreter's recursion limit), scaled down.
CompilerRecursionLimit == 2

Req == 1..NumRequests

\* ------------------------------------------------------------------ text
L_print_hi ==
    <<"p", "r", "i", "n", "t", "(", "'", "h", "i", "'", ")">>

L_print_err ==
    <<"p", "r", "i", "n", "t", "(", "'", "e", "r", "r", "'", ",", " ", "f", "i", "l", "e",
       "=", "c", "o", "l", "l", "e", "c", "t", "i", "o", "n", "s", ".", "_", "s", "y", "s",
       ".", "s", "t", "d", "e", "r", "r", ")">>

L_read_x ==
    <<"p", "r", "i", "n", "t", "(", "x", ")">>

L_div0 ==
    <<"x", " ", "=", " ", "1", " ", "/", " ", "0">>

L_import_math ==
    <<"i", "m", "p", "o", "r", "t", " ", "m", "a", "t", "h">>

L_print_pi ==
    <<"p", "r", "i", "n", "t", "(", "m", "a", "t", "h", ".", "p", "i", ")">>

L_set_k ==
    <<"m", "a", "t", "h", ".", "k", " ", "=", " ", "1">>

L_get_k ==
    <<"p", "r", "i", "n", "t", "(", "m", "a", "t", "h", ".", "k", ")">>

L_loop ==
    <<"w", "h", "i", "l", "e", " ", "T", "r", "u", "e", ":", " ", "p", "a", "s", "s">>

L_import_os ==
    <<"i", "m", "p", "o", "r", "t", " ", "o", "s">>

L_eval ==
    <<"e", "v", "a", "l", "(", "'", "1", "'", ")">>

L_IMPORT_OS ==
    <<"I", "m", "p", "o", "r", "t", " ", "O", "S">>

L_unclosed ==
    <<"x", " ", "=", " ", "(">>

L_assign ==
    <<"x", " ", "=", " ">>

T_hi ==
    <<"h", "i", "\n">>

T_err ==
    <<"e", "r", "r", "\n">>

T_one ==
    <<"1", "\n">>

T_pi ==
    <<"3", ".", "1", "4", "1", "5", "9", "2", "6", "5", "3", "5", "8", "9", "7", "9", "3",
       "\n">>

TruncationMarker ==
    <<"\n", ".", ".", ".", " ", "(", "o", "u", "t", "p", "u", "t", " ", "t", "r", "u", "n",
       "c", "a", "t", "e", "d", ")">>

TracebackHeader ==
    <<"T", "r", "a", "c", "e", "b", "a", "c", "k", " ", "(", "m", "o", "s", "t", " ", "r",
       "e", "c", "e", "n", "t", " ", "c", "a", "l", "l", " ", "l", "a", "s", "t", ")", ":",
       "\n">>

E_ZeroDivisionError ==
    <<"Z", "e", "r", "o", "D", "i", "v", "i", "s", "i", "o", "n", "E", "r", "r", "o", "r",
       ":", " ", "d", "i", "v", "i", "s", "i", "o", "n", " ", "b", "y", " ", "z", "e", "r",
       "o", "\n">>

E_ImportError ==
    <<"I", "m", "p", "o", "r", "t", "E", "r", "r", "o", "r", ":", " ", "_", "_", "i", "m",
       "p", "o", "r", "t", "_", "_", " ", "n", "o", "t", " ", "f", "o", "u", "n", "d", "\n">>

E_NameError ==
    <<"N", "a", "m", "e", "E", "r", "r", "o", "r", ":", " ", "n", "a", "m", "e", " ", "i",
       "s", " ", "n", "o", "t", " ", "d", "e", "f", "i", "n", "e", "d", "\n">>

E_AttributeError ==
    <<"A", "t", "t", "r", "i", "b", "u", "t", "e", "E", "r", "r", "o", "r", ":", " ", "m",
       "o", "d", "u", "l", "e", " ", "h", "a", "s", " ", "n", "o", " ", "a", "t", "t", "r",
       "i", "b", "u", "t", "e", "\n">>

UpperCase ==
    <<"A", "B", "C", "D", "E", "F", "G", "H", "I", "J", "K", "L", "M",
      "N", "O", "P", "Q", "R", "S", "T", "U", "V", "W", "X", "Y", "Z">>

LowerCase ==
    <<"a", "b", "c", "d", "e", "f", "g", "h", "i", "j", "k", "l", "m",
      "n", "o", "p", "q", "r", "s", "t", "u", "v", "w", "x", "y", "z">>

\* The list of _validate_code, in its order.
dangerous_patterns ==
    << <<"i", "m", "p", "o", "r", "t", " ", "o", "s">>,
       <<"i", "m", "p", "o", "r", "t", " ", "s", "u", "b", "p", "r", "o", "c", "e", "s", "s">>,
       <<"i", "m", "p", "o", "r", "t", " ", "s", "y", "s">>,
       <<"e", "v", "a", "l", "(">>,
       <<"e", "x", "e", "c", "(">>,
       <<"_", "_", "i", "m", "p", "o", "r", "t", "_", "_">>,
       <<"o", "p", "e", "n", "(">>,
       <<"f", "i", "l", "e", "(">>,
       <<"i", "n", "p", "u", "t", "(">>,
       <<"r", "a", "w", "_", "i", "n", "p", "u", "t", "(">>,
       <<"c", "o", "m", "p", "i", "l", "e", "(">>,
       <<"g", "l", "o", "b", "a", "l", "s", "(", ")">>,
       <<"l", "o", "c", "a", "l", "s", "(", ")">>,
       <<"v", "a", "r", "s", "(">>,
       <<"d", "i", "r", "(">>,
       <<"g", "e", "t", "a", "t", "t", "r", "(">>,
       <<"s", "e", "t", "a", "t", "t", "r", "(">>,
       <<"d", "e", "l", "a", "t", "t", "r", "(">>,
       <<"h", "a", "s", "a", "t", "t", "r", "(">>,
       <<"e", "x", "i", "t", "(">>,
       <<"q", "u", "i", "t", "(">>,
       <<"r", "e", "l", "o", "a", "d", "(">> >>

\* ------------------------------------------------------- string operations
\* str.lower() on one character.
Lower(c) ==
    IF \E i \in 1..Len(UpperCase) : UpperCase[i] = c
    THEN LowerCase[CHOOSE i \in 1..Len(UpperCase) : UpperCase[i] = c]
    ELSE c

\* code.lower()
lower(s) == [i \in 1..Len(s) |-> Lower(s[i])]

\* needle in hay
Contains(hay, needle) ==
    \E i \in 0..(Len(hay) - Len(needle)) :
        SubSeq(hay, i + 1, i + Len(needle)) = needle

Whitespace == {" ", "\n", "\t"}

\* not s.strip()
IsBlank(s) == \A i \in 1..Len(s) : s[i] \in Whitespace

\* s.startswith(p)
StartsWith(s, p) == Len(s) >= Len(p) /\ SubSeq(s, 1, Len(p)) = p

\* The lines of a source text.
RECURSIVE SplitLines(_)
SplitLines(s) ==
    IF \A i \in 1..Len(s) : s[i] # "\n"
    THEN << s >>
    ELSE LET k == CHOOSE i \in 1..Len(s) :
                      s[i] = "\n" /\ \A j \in 1..(i - 1) : s[j] # "\n"
         IN  << SubSeq(s, 1, k - 1) >> \o SplitLines(SubSeq(s, k + 1, Len(s)))

\* "\n".join(lines)
RECURSIVE JoinLines(_)
JoinLines(ls) ==
    IF Len(ls) = 0 THEN <<>>
    ELSE IF Len(ls) = 1 THEN ls[1]
    ELSE ls[1] \o << "\n" >> \o JoinLines(Tail(ls))

\* ------------------------------------------- the Python the model knows
\* A line "x = -...-1": an assignment whose right side nests n negations.
IsAssign(line) ==
    /\ StartsWith(line, L_assign)
    /\ Len(line) > Len(L_assign)
    /\ line[Len(line)] = "1"
    /\ \A i \in (Len(L_assign) + 1)..(Len(line) - 1) : line[i] = "-"

NestingDepth(line) ==
    IF IsAssign(line) THEN Len(line) - Len(L_assign) - 1 ELSE 0

\* The statement a source line is; "invalid" is a line the parser rejects.
StmtOf(line) ==
    CASE line = L_print_hi    -> [op |-> "print",     arg |-> "hi"]
      [] line = L_print_err   -> [op |-> "print_err", arg |-> "err"]
      [] line = L_read_x      -> [op |-> "read",      arg |-> "x"]
      [] line = L_div0        -> [op |-> "div0",      arg |-> ""]
      [] line = L_import_math -> [op |-> "import",    arg |-> "math"]
      [] line = L_import_os   -> [op |-> "import",    arg |-> "os"]
      [] line = L_print_pi    -> [op |-> "getattr",   arg |-> "pi"]
      [] line = L_get_k       -> [op |-> "getattr",   arg |-> "k"]
      [] line = L_set_k       -> [op |-> "setattr",   arg |-> "k"]
      [] line = L_loop        -> [op |-> "loop",      arg |-> ""]
      [] line = L_eval        -> [op |-> "call",      arg |-> "eval"]
      [] IsAssign(line)       -> [op |-> "bind",      arg |-> "x"]
      [] OTHER                -> [op |-> "invalid",   arg |-> ""]

\* compile(code, '<string>', 'exec'): "ok", or the exception it raises.
compile(code) ==
    LET ls == SplitLines(code) IN
    IF \E i \in 1..Len(ls) : ~IsBlank(ls[i]) /\ StmtOf(ls[i]).op = "invalid"
    THEN "SyntaxError"
    ELSE IF \E i \in 1..Len(ls) : NestingDepth(ls[i]) > CompilerRecursionLimit
    THEN "RecursionError"
    ELSE "ok"

\* The statements exec() runs, in order.
NonBlank(line) == ~IsBlank(line)
Statements(code) ==
    LET ls == SelectSeq(SplitLines(code), NonBlank)
    IN  [i \in 1..Len(ls) |-> StmtOf(ls[i])]

\* ------------------------------------------------------------- validation
\* The denylist entry found earliest in the text instead of the first entry
\* of the list that the text contains.
FirstDangerous_first_in_text(code_lower) ==
    LET hits == {i \in 1..Len(dangerous_patterns) :
                     Contains(code_lower, dangerous_patterns[i])}
        At(i) == CHOOSE k \in 0..Len(code_lower) :
                     /\ SubSeq(code_lower, k + 1, k + Len(dangerous_patterns[i]))
                            = dangerous_patterns[i]
                     /\ \A j \in 0..(k - 1) :
                            SubSeq(code_lower, j + 1, j + Len(dangerous_patterns[i]))
                                # dangerous_patterns[i]
    IN  IF hits = {} THEN 0
        ELSE CHOOSE i \in hits : \A j \in hits : At(i) < At(j) \/ (At(i) = At(j) /\ i <= j)

\* Index of the first entry of dangerous_patterns found in the text, 0 if none.
FirstDangerous(code_lower) ==
    LET hits == {i \in 1..Len(dangerous_patterns) :
                     Contains(code_lower, dangerous_patterns[i])}
    IN  IF hits = {} THEN 0
        ELSE CHOOSE i \in hits : \A j \in hits : i <= j

\* _validate_code with the empty-input test made on code instead of
\* code.strip().
_validate_code_no_strip(code) ==
    IF code = <<>>
    THEN [valid |-> FALSE, error |-> << "No code provided" >>, raised |-> "none"]
    ELSE IF FirstDangerous(lower(code)) # 0
    THEN [valid  |-> FALSE,
          error  |-> << "Potentially dangerous operation detected: " >>
                         \o dangerous_patterns[FirstDangerous(lower(code))],
          raised |-> "none"]
    ELSE IF compile(code) = "SyntaxError"
    THEN [valid |-> FALSE, error |-> << "Syntax error: ", "invalid syntax" >>,
          raised |-> "none"]
    ELSE IF compile(code) # "ok"
    THEN [valid |-> FALSE, error |-> <<>>, raised |-> compile(code)]
    ELSE [valid |-> TRUE, error |-> <<>>, raised |-> "none"]

\* _validate_code with the scan made on code instead of code.lower().
_validate_code_case_sensitive(code) ==
    IF code = <<>> \/ IsBlank(code)
    THEN [valid |-> FALSE, error |-> << "No code provided" >>, raised |-> "none"]
    ELSE IF FirstDangerous(code) # 0
    THEN [valid  |-> FALSE,
          error  |-> << "Potentially dangerous operation detected: " >>
                         \o dangerous_patterns[FirstDangerous(code)],
          raised |-> "none"]
    ELSE IF compile(code) = "SyntaxError"
    THEN [valid |-> FALSE, error |-> << "Syntax error: ", "invalid syntax" >>,
          raised |-> "none"]
    ELSE IF compile(code) # "ok"
    THEN [valid |-> FALSE, error |-> <<>>, raised |-> compile(code)]
    ELSE [valid |-> TRUE, error |-> <<>>, raised |-> "none"]

\* _validate_code: raised is the exception that leaves it, "none" if it returns.
_validate_code(code) ==
    IF code = <<>> \/ IsBlank(code)
    THEN [valid |-> FALSE, error |-> << "No code provided" >>, raised |-> "none"]
    ELSE IF FirstDangerous(lower(code)) # 0
    THEN [valid  |-> FALSE,
          error  |-> << "Potentially dangerous operation detected: " >>
                         \o dangerous_patterns[FirstDangerous(lower(code))],
          raised |-> "none"]
    ELSE IF compile(code) = "SyntaxError"
    THEN [valid |-> FALSE, error |-> << "Syntax error: ", "invalid syntax" >>,
          raised |-> "none"]
    ELSE IF compile(code) # "ok"
    THEN [valid |-> FALSE, error |-> <<>>, raised |-> compile(code)]
    ELSE [valid |-> TRUE, error |-> <<>>, raised |-> "none"]

\* ----------------------------------------------------------- the namespace
\* Config.ALLOWED_IMPORTS; a module name is the sequence of its dotted parts.
ALLOWED_IMPORTS ==
    { <<"math">>, <<"random">>, <<"datetime">>, <<"json">>, <<"csv">>, <<"re">>,
      <<"collections">>, <<"itertools">>, <<"functools">>, <<"operator">>,
      <<"numpy">>, <<"pandas">>, <<"matplotlib", "pyplot">>, <<"requests">> }

\* The modules of the standard library among them: always importable.
StdlibModules ==
    { <<"math">>, <<"random">>, <<"datetime">>, <<"json">>, <<"csv">>, <<"re">>,
      <<"collections">>, <<"itertools">>, <<"functools">>, <<"operator">> }

\* The keys of the '__builtins__' dictionary.
SAFE_BUILTINS ==
    { "print", "len", "str", "int", "float", "bool", "list", "dict", "tuple",
      "set", "range", "enumerate", "zip", "map", "filter", "sorted", "sum",
      "min", "max", "abs", "round", "pow", "divmod", "isinstance", "type",
      "ValueError", "TypeError", "IndexError", "KeyError", "Exception" }

\* parts[-1]
ShortName(module_name) == module_name[Len(module_name)]

\* The key a module of allowed_imports gets in the namespace.
ModuleKey(module_name) ==
    IF Len(module_name) > 1 THEN ShortName(module_name) ELSE module_name[1]

\* ---------------------------------------------------------------- inputs
Assign(n) == L_assign \o [i \in 1..n |-> "-"] \o << "1" >>

\* The code strings submitted.
Codes ==
    { <<>>,
      << " ", "\n" >>,
      L_print_hi,
      JoinLines(<< L_print_hi, L_print_hi, L_print_err >>),
      L_div0,
      JoinLines(<< L_print_hi, L_div0 >>),
      JoinLines(<< L_import_math, L_print_pi >>),
      L_import_os,
      JoinLines(<< L_IMPORT_OS, L_unclosed >>),
      JoinLines(<< L_eval, L_import_os >>),
      JoinLines(<< L_import_os, Assign(CompilerRecursionLimit + 1) >>),
      L_unclosed,
      Assign(0),
      L_read_x,
      L_set_k,
      L_get_k,
      L_loop,
      Assign(CompilerRecursionLimit + 1) }

\* exec() compiles the code it is given: the statements of each code string.
Program == [c \in Codes |-> Statements(c)]

\* The modules __import__ finds on the host: the standard library, and of
\* the third-party ones those that happen to be installed.
installed == StdlibModules \cup { <<"numpy">>, <<"matplotlib", "pyplot">> }

\* ----------------------------------------------------------------- state
VARIABLES
    code,            \* code[r]: the argument of call r
    pc,              \* pc[r]: where the caller of call r stands in execute_code
    result,          \* result[r]: the result dictionary of call r
    stdout_capture,  \* stdout_capture[r]: the StringIO of call r
    stderr_capture,
    old_stdout,      \* old_stdout[r]: the target redirect_stdout saved on entry
    old_stderr,
    sys_stdout,      \* sys.stdout: 0 the stream of the process, r the StringIO of r
    sys_stderr,
    real_stdout,     \* what was written to the streams of the process
    real_stderr,
    exec_globals,    \* exec_globals[r]
    exec_locals,     \* exec_locals[r]: the names bound in it
    module_attrs,    \* attributes set on the module objects of sys.modules
    worker,          \* worker[r]: "none", "running" or "done" (the thread of r)
    wpos,            \* wpos[r]: the statement the thread of r runs next
    wexc,            \* wexc[r]: the exception that ended the thread of r
    observed,        \* observed[r]: whose module attributes the code of r has read
    exc,             \* exc[r]: the exception propagating in the caller of r
    wait_elapsed,    \* wait_elapsed[r]: join() returned with the thread still running
    timed_out,       \* timed_out[r]: the caller took the return of line 76
    elapsed          \* elapsed[r]: time.time() - start_time, in ticks

vars == << code, pc, result, stdout_capture, stderr_capture,
           old_stdout, old_stderr, sys_stdout, sys_stderr, real_stdout,
           real_stderr, exec_globals, exec_locals, module_attrs, worker, wpos,
           wexc, observed, exc, wait_elapsed, timed_out, elapsed >>

NoGlobals == [builtins |-> {}, modules |-> << >>, user |-> {}]

\* The result dictionary of lines 46-52.
InitialResult(c) ==
    [success |-> FALSE, output |-> <<>>, error |-> <<>>, execution_time |-> 0,
     code |-> c]

Init ==
    /\ code = [r \in Req |-> <<>>]
    /\ pc = [r \in Req |-> "idle"]
    /\ result = [r \in Req |-> InitialResult(<<>>)]
    /\ stdout_capture = [r \in Req |-> <<>>]
    /\ stderr_capture = [r \in Req |-> <<>>]
    /\ old_stdout = [r \in Req |-> 0]
    /\ old_stderr = [r \in Req |-> 0]
    /\ sys_stdout = 0
    /\ sys_stderr = 0
    /\ real_stdout = <<>>
    /\ real_stderr = <<>>
    /\ exec_globals = [r \in Req |-> NoGlobals]
    /\ exec_locals = [r \in Req |-> {}]
    /\ module_attrs = {}
    /\ worker = [r \in Req |-> "none"]
    /\ wpos = [r \in Req |-> 1]
    /\ wexc = [r \in Req |-> "none"]
    /\ observed = [r \in Req |-> {}]
    /\ exc = [r \in Req |-> "none"]
    /\ wait_elapsed = [r \in Req |-> FALSE]
    /\ timed_out = [r \in Req |-> FALSE]
    /\ elapsed = [r \in Req |-> 0]

\* ------------------------------------------------------------ the caller
\* A client calls execute_code(c); the calls are numbered in call order.
Call(r, c) ==
    /\ pc[r] = "idle"
    /\ \A q \in Req : q < r => pc[q] # "idle"
    /\ code' = [code EXCEPT ![r] = c]
    /\ pc' = [pc EXCEPT ![r] = "validate"]
    /\ UNCHANGED << wait_elapsed, result, stdout_capture, stderr_capture,
                    old_stdout, old_stderr, sys_stdout, sys_stderr,
                    real_stdout, real_stderr, exec_globals, exec_locals,
                    module_attrs, worker, wpos, wexc, observed, exc, timed_out,
                    elapsed >>

\* Validate with the early return of lines 33-39 giving the initial result:
\* the validator's error text is left out.
Validate_drops_error(r) ==
    /\ pc[r] = "validate"
    /\ LET v == _validate_code(code[r]) IN
       IF v.raised # "none"
       THEN /\ exc' = [exc EXCEPT ![r] = v.raised]
            /\ pc' = [pc EXCEPT ![r] = "raised"]
            /\ UNCHANGED result
       ELSE IF ~v.valid
       THEN /\ result' = [result EXCEPT ![r] = InitialResult(code[r])]
            /\ pc' = [pc EXCEPT ![r] = "returned"]
            /\ UNCHANGED exc
       ELSE /\ result' = [result EXCEPT ![r] = InitialResult(code[r])]
            /\ pc' = [pc EXCEPT ![r] = "build"]
            /\ UNCHANGED exc
    /\ UNCHANGED << wait_elapsed, code, stdout_capture, stderr_capture,
                    old_stdout, old_stderr, sys_stdout, sys_stderr,
                    real_stdout, real_stderr, exec_globals, exec_locals,
                    module_attrs, worker, wpos, wexc, observed, timed_out,
                    elapsed >>

\* Lines 31-52: validation, then the early return, or the buffers, start_time
\* and the initial result.
Validate(r) ==
    /\ pc[r] = "validate"
    /\ LET v == _validate_code(code[r]) IN
       IF v.raised # "none"
       THEN /\ exc' = [exc EXCEPT ![r] = v.raised]
            /\ pc' = [pc EXCEPT ![r] = "raised"]
            /\ UNCHANGED result
       ELSE IF ~v.valid
       THEN /\ result' = [result EXCEPT
                              ![r] = [success |-> FALSE, output |-> <<>>,
                                      error |-> v.error, execution_time |-> 0,
                                      code |-> code[r]]]
            /\ pc' = [pc EXCEPT ![r] = "returned"]
            /\ UNCHANGED exc
       ELSE /\ result' = [result EXCEPT ![r] = InitialResult(code[r])]
            /\ pc' = [pc EXCEPT ![r] = "build"]
            /\ UNCHANGED exc
    /\ UNCHANGED << wait_elapsed, code, stdout_capture, stderr_capture,
                    old_stdout, old_stderr, sys_stdout, sys_stderr,
                    real_stdout, real_stderr, exec_globals, exec_locals,
                    module_attrs, worker, wpos, wexc, observed, timed_out,
                    elapsed >>

\* _create_safe_globals keying a dotted module by its first component
\* instead of parts[-1].
_create_safe_globals_first_part ==
    LET found == { m \in ALLOWED_IMPORTS : m \in installed }
        keys  == { m[1] : m \in found }
    IN  [builtins |-> SAFE_BUILTINS,
         modules  |-> [k \in keys |-> CHOOSE m \in found : m[1] = k],
         user     |-> {}]

\* _create_safe_globals (lines 150-211): the builtins, and a key for every
\* module of allowed_imports that __import__ finds.
_create_safe_globals ==
    LET found == { m \in ALLOWED_IMPORTS : m \in installed }
        keys  == { ModuleKey(m) : m \in found }
    IN  [builtins |-> SAFE_BUILTINS,
         modules  |-> [k \in keys |-> CHOOSE m \in found : ModuleKey(m) = k],
         user     |-> {}]

\* exec_locals kept from one call to the next instead of built anew.
NewLocals_reused(r) == UNION { exec_locals[q] : q \in Req }

\* exec_locals = {} (line 57)
NewLocals(r) == {}

\* Lines 56-57.
Build(r) ==
    /\ pc[r] = "build"
    /\ exec_globals' = [exec_globals EXCEPT ![r] = _create_safe_globals]
    /\ exec_locals' = [exec_locals EXCEPT ![r] = NewLocals(r)]
    /\ pc' = [pc EXCEPT ![r] = "enter_stdout"]
    /\ UNCHANGED << wait_elapsed, code, result, stdout_capture, stderr_capture,
                    old_stdout, old_stderr, sys_stdout, sys_stderr,
                    real_stdout, real_stderr, module_attrs, worker, wpos, wexc,
                    observed, exc, timed_out, elapsed >>

\* redirect_stdout.__enter__ (line 60)
EnterStdout(r) ==
    /\ pc[r] = "enter_stdout"
    /\ old_stdout' = [old_stdout EXCEPT ![r] = sys_stdout]
    /\ sys_stdout' = r
    /\ pc' = [pc EXCEPT ![r] = "enter_stderr"]
    /\ UNCHANGED << wait_elapsed, code, result, stdout_capture, stderr_capture,
                    old_stderr, sys_stderr, real_stdout, real_stderr,
                    exec_globals, exec_locals, module_attrs, worker, wpos, wexc,
                    observed, exc, timed_out, elapsed >>

\* redirect_stderr.__enter__ (line 61)
EnterStderr(r) ==
    /\ pc[r] = "enter_stderr"
    /\ old_stderr' = [old_stderr EXCEPT ![r] = sys_stderr]
    /\ sys_stderr' = r
    /\ pc' = [pc EXCEPT ![r] = "start"]
    /\ UNCHANGED << wait_elapsed, code, result, stdout_capture, stderr_capture,
                    old_stdout, sys_stdout, real_stdout, real_stderr,
                    exec_globals, exec_locals, module_attrs, worker, wpos, wexc,
                    observed, exc, timed_out, elapsed >>

\* Lines 64-70: the thread is created and started.
Start(r) ==
    /\ pc[r] = "start"
    /\ worker' = [worker EXCEPT ![r] = "running"]
    /\ pc' = [pc EXCEPT ![r] = "join"]
    /\ UNCHANGED << wait_elapsed, code, result, stdout_capture, stderr_capture,
                    old_stdout, old_stderr, sys_stdout, sys_stderr,
                    real_stdout, real_stderr, exec_globals, exec_locals,
                    module_attrs, wpos, wexc, observed, exc, timed_out,
                    elapsed >>

\* Line 70 when the host cannot start another thread: start() raises
\* RuntimeError inside the with block.
StartFails(r) ==
    /\ pc[r] = "start"
    /\ exc' = [exc EXCEPT ![r] = "RuntimeError"]
    /\ pc' = [pc EXCEPT ![r] = "exit_stderr"]
    /\ UNCHANGED << wait_elapsed, code, result, stdout_capture, stderr_capture,
                    old_stdout, old_stderr, sys_stdout, sys_stderr,
                    real_stdout, real_stderr, exec_globals, exec_locals,
                    module_attrs, worker, wpos, wexc, observed, timed_out,
                    elapsed >>

\* Line 71: join(timeout=max_execution_time) returns when the thread has
\* ended or the timeout has passed.
Join(r) ==
    /\ pc[r] = "join"
    /\ worker[r] = "done" \/ elapsed[r] >= max_execution_time
    /\ wait_elapsed' = [wait_elapsed EXCEPT ![r] = (worker[r] = "running")]
    /\ pc' = [pc EXCEPT ![r] = "is_alive"]
    /\ UNCHANGED << code, result, stdout_capture, stderr_capture,
                    old_stdout, old_stderr, sys_stdout, sys_stderr,
                    real_stdout, real_stderr, exec_globals, exec_locals,
                    module_attrs, worker, wpos, wexc, observed, exc, timed_out,
                    elapsed >>

TimeoutError ==
    << "Code execution timed out after ", ToString(max_execution_time),
       " seconds" >>

\* The timeout path without the assignment of line 75.
IsAlive_no_message(r) ==
    /\ pc[r] = "is_alive"
    /\ IF worker[r] = "running"
       THEN /\ timed_out' = [timed_out EXCEPT ![r] = TRUE]
            /\ UNCHANGED result
       ELSE UNCHANGED << result, timed_out >>
    /\ pc' = [pc EXCEPT ![r] = "exit_stderr"]
    /\ UNCHANGED << wait_elapsed, code, stdout_capture, stderr_capture,
                    old_stdout, old_stderr, sys_stdout, sys_stderr,
                    real_stdout, real_stderr, exec_globals, exec_locals,
                    module_attrs, worker, wpos, wexc, observed, exc, elapsed >>

\* The timeout path stopping the thread it found alive.
IsAlive_cancels(r) ==
    /\ pc[r] = "is_alive"
    /\ IF worker[r] = "running"
       THEN /\ result' = [result EXCEPT ![r].error = TimeoutError]
            /\ timed_out' = [timed_out EXCEPT ![r] = TRUE]
            /\ worker' = [worker EXCEPT ![r] = "done"]
       ELSE UNCHANGED << result, timed_out, worker >>
    /\ pc' = [pc EXCEPT ![r] = "exit_stderr"]
    /\ UNCHANGED << wait_elapsed, code, stdout_capture, stderr_capture,
                    old_stdout, old_stderr, sys_stdout, sys_stderr,
                    real_stdout, real_stderr, exec_globals, exec_locals,
                    module_attrs, wpos, wexc, observed, exc, elapsed >>

\* The timeout decided by the wait having elapsed instead of by is_alive().
IsAlive_by_wait(r) ==
    /\ pc[r] = "is_alive"
    /\ IF wait_elapsed[r]
       THEN /\ result' = [result EXCEPT ![r].error = TimeoutError]
            /\ timed_out' = [timed_out EXCEPT ![r] = TRUE]
       ELSE UNCHANGED << result, timed_out >>
    /\ pc' = [pc EXCEPT ![r] = "exit_stderr"]
    /\ UNCHANGED << wait_elapsed, code, stdout_capture, stderr_capture,
                    old_stdout, old_stderr, sys_stdout, sys_stderr,
                    real_stdout, real_stderr, exec_globals, exec_locals,
                    module_attrs, worker, wpos, wexc, observed, exc, elapsed >>

\* The timeout path with the captured stdout copied into the result.
IsAlive_keeps_output(r) ==
    /\ pc[r] = "is_alive"
    /\ IF worker[r] = "running"
       THEN /\ result' = [result EXCEPT ![r].error = TimeoutError,
                                        ![r].output = stdout_capture[r]]
            /\ timed_out' = [timed_out EXCEPT ![r] = TRUE]
       ELSE UNCHANGED << result, timed_out >>
    /\ pc' = [pc EXCEPT ![r] = "exit_stderr"]
    /\ UNCHANGED << wait_elapsed, code, stdout_capture, stderr_capture,
                    old_stdout, old_stderr, sys_stdout, sys_stderr,
                    real_stdout, real_stderr, exec_globals, exec_locals,
                    module_attrs, worker, wpos, wexc, observed, exc, elapsed >>

\* Lines 73-76: the liveness test, and on the timeout path the error text and
\* the return, which leaves the with block.
IsAlive(r) ==
    /\ pc[r] = "is_alive"
    /\ IF worker[r] = "running"
       THEN /\ result' = [result EXCEPT ![r].error = TimeoutError]
            /\ timed_out' = [timed_out EXCEPT ![r] = TRUE]
       ELSE UNCHANGED << result, timed_out >>
    /\ pc' = [pc EXCEPT ![r] = "exit_stderr"]
    /\ UNCHANGED << wait_elapsed, code, stdout_capture, stderr_capture,
                    old_stdout, old_stderr, sys_stdout, sys_stderr,
                    real_stdout, real_stderr, exec_globals, exec_locals,
                    module_attrs, worker, wpos, wexc, observed, exc, elapsed >>

\* redirect_stderr.__exit__: the inner context manager leaves first.
ExitStderr(r) ==
    /\ pc[r] = "exit_stderr"
    /\ sys_stderr' = old_stderr[r]
    /\ pc' = [pc EXCEPT ![r] = "exit_stdout"]
    /\ UNCHANGED << wait_elapsed, code, result, stdout_capture, stderr_capture,
                    old_stdout, old_stderr, sys_stdout, real_stdout,
                    real_stderr, exec_globals, exec_locals, module_attrs,
                    worker, wpos, wexc, observed, exc, timed_out, elapsed >>

\* The except clauses of lines 90-95, in their order.
Classify(e) ==
    IF e = "SyntaxError" THEN << "Syntax Error: ", e >>
    ELSE IF e = "ImportError"
    THEN << "Import Error: ", e,
            " - This import is not allowed for security reasons" >>
    ELSE << "Runtime Error: ", e >>

\* ExitStdout with the return of line 76 leaving without the finally clause:
\* the timeout result keeps the initial execution_time.
ExitStdout_return_skips_finally(r) ==
    /\ pc[r] = "exit_stdout"
    /\ sys_stdout' = old_stdout[r]
    /\ IF exc[r] # "none"
       THEN /\ result' = [result EXCEPT ![r].error = Classify(exc[r]),
                                        ![r].execution_time = elapsed[r]]
            /\ exc' = [exc EXCEPT ![r] = "none"]
            /\ pc' = [pc EXCEPT ![r] = "returned"]
       ELSE IF timed_out[r]
       THEN /\ pc' = [pc EXCEPT ![r] = "returned"]
            /\ UNCHANGED << result, exc >>
       ELSE /\ pc' = [pc EXCEPT ![r] = "assemble"]
            /\ UNCHANGED << result, exc >>
    /\ UNCHANGED << wait_elapsed, code, stdout_capture, stderr_capture,
                    old_stdout, old_stderr, sys_stderr, real_stdout,
                    real_stderr, exec_globals, exec_locals, module_attrs,
                    worker, wpos, wexc, observed, timed_out, elapsed >>

\* redirect_stdout.__exit__; then, with an exception or the timeout return
\* pending, the except clause, the finally clause and the return.
ExitStdout(r) ==
    /\ pc[r] = "exit_stdout"
    /\ sys_stdout' = old_stdout[r]
    /\ IF exc[r] # "none"
       THEN /\ result' = [result EXCEPT ![r].error = Classify(exc[r]),
                                        ![r].execution_time = elapsed[r]]
            /\ exc' = [exc EXCEPT ![r] = "none"]
            /\ pc' = [pc EXCEPT ![r] = "returned"]
       ELSE IF timed_out[r]
       THEN /\ result' = [result EXCEPT ![r].execution_time = elapsed[r]]
            /\ pc' = [pc EXCEPT ![r] = "returned"]
            /\ UNCHANGED exc
       ELSE /\ pc' = [pc EXCEPT ![r] = "assemble"]
            /\ UNCHANGED << result, exc >>
    /\ UNCHANGED << wait_elapsed, code, stdout_capture, stderr_capture,
                    old_stdout, old_stderr, sys_stderr, real_stdout,
                    real_stderr, exec_globals, exec_locals, module_attrs,
                    worker, wpos, wexc, observed, timed_out, elapsed >>

\* The cut of lines 83-84 made one character short.
Truncate_one_short(stdout_content) ==
    IF Len(stdout_content) > max_output_length
    THEN SubSeq(stdout_content, 1, max_output_length - 1) \o TruncationMarker
    ELSE stdout_content

\* Lines 83-84.
Truncate(stdout_content) ==
    IF Len(stdout_content) > max_output_length
    THEN SubSeq(stdout_content, 1, max_output_length) \o TruncationMarker
    ELSE stdout_content

\* Lines 79-88, the finally clause and the return of line 100.
Assemble(r) ==
    /\ pc[r] = "assemble"
    /\ result' = [result EXCEPT
                      ![r].success = TRUE,
                      ![r].output = Truncate(stdout_capture[r]),
                      ![r].error = stderr_capture[r],
                      ![r].execution_time = elapsed[r]]
    /\ pc' = [pc EXCEPT ![r] = "returned"]
    /\ UNCHANGED << wait_elapsed, code, stdout_capture, stderr_capture,
                    old_stdout, old_stderr, sys_stdout, sys_stderr,
                    real_stdout, real_stderr, exec_globals, exec_locals,
                    module_attrs, worker, wpos, wexc, observed, exc, timed_out,
                    elapsed >>

\* ------------------------------------------------------------ the worker
\* What threading's excepthook prints for an exception that leaves run().
ExceptionText(e) ==
    CASE e = "ZeroDivisionError" -> E_ZeroDivisionError
      [] e = "ImportError"       -> E_ImportError
      [] e = "NameError"         -> E_NameError
      [] e = "AttributeError"    -> E_AttributeError

Traceback(e) == TracebackHeader \o ExceptionText(e)

\* Name lookup of code run by exec(code, exec_globals, exec_locals).
Resolves(r, name) ==
    \/ name \in exec_locals[r]
    \/ name \in exec_globals[r].user
    \/ name \in DOMAIN exec_globals[r].modules
    \/ name \in exec_globals[r].builtins

\* The module object the name math stands for in the namespace of r.
MathModule(r) == exec_globals[r].modules["math"]

HasAttr(m, a) ==
    a = "pi" \/ \E x \in module_attrs : x.module = m /\ x.attr = a

\* The effect of one statement run by the thread of r: the text it writes to
\* sys.stdout and sys.stderr, the names it binds, the module attribute it
\* sets, and the exception it raises.
Quiet == [out |-> <<>>, err |-> <<>>, bind |-> {}, set |-> {}, raises |-> "none"]

Effect(r, st) ==
    CASE st.op = "print" ->
            IF Resolves(r, "print")
            THEN [Quiet EXCEPT !.out = T_hi]
            ELSE [Quiet EXCEPT !.raises = "NameError"]
      [] st.op = "print_err" ->
            IF Resolves(r, "print") /\ Resolves(r, "collections")
            THEN [Quiet EXCEPT !.err = T_err]
            ELSE [Quiet EXCEPT !.raises = "NameError"]
      [] st.op = "read" ->
            IF Resolves(r, "print") /\ Resolves(r, st.arg)
            THEN [Quiet EXCEPT !.out = T_one]
            ELSE [Quiet EXCEPT !.raises = "NameError"]
      [] st.op = "bind" -> [Quiet EXCEPT !.bind = {st.arg}]
      [] st.op = "div0" -> [Quiet EXCEPT !.raises = "ZeroDivisionError"]
      [] st.op = "import" ->
            \* the import statement calls __builtins__['__import__']
            IF "__import__" \in exec_globals[r].builtins /\ << st.arg >> \in installed
            THEN [Quiet EXCEPT !.bind = {st.arg}]
            ELSE [Quiet EXCEPT !.raises = "ImportError"]
      [] st.op = "getattr" ->
            IF ~(Resolves(r, "print") /\ Resolves(r, "math"))
            THEN [Quiet EXCEPT !.raises = "NameError"]
            ELSE IF ~HasAttr(MathModule(r), st.arg)
            THEN [Quiet EXCEPT !.raises = "AttributeError"]
            ELSE [Quiet EXCEPT !.out = IF st.arg = "pi" THEN T_pi ELSE T_one]
      [] st.op = "setattr" ->
            IF Resolves(r, "math")
            THEN [Quiet EXCEPT !.set = {[module |-> MathModule(r),
                                         attr |-> st.arg, by |-> r]}]
            ELSE [Quiet EXCEPT !.raises = "NameError"]
      [] st.op = "call" ->
            IF Resolves(r, st.arg) THEN Quiet
            ELSE [Quiet EXCEPT !.raises = "NameError"]
      [] OTHER -> Quiet

\* The writers of the module attributes a statement of r reads.
Readers(r, st) ==
    IF st.op = "getattr" /\ Resolves(r, "math")
    THEN { x.by : x \in { y \in module_attrs :
                              y.module = MathModule(r) /\ y.attr = st.arg } }
    ELSE {}

\* The thread of r writing to the buffers of its own call, whatever
\* sys.stdout and sys.stderr are: capture per worker.
_execute_with_globals_own_buffers(r) ==
    /\ worker[r] = "running"
    /\ LET stmts == Program[code[r]]
           st    == stmts[wpos[r]]
           eff   == Effect(r, st)
           err   == IF eff.raises # "none" THEN Traceback(eff.raises)
                    ELSE eff.err
       IN
       /\ st.op # "loop"
       /\ stdout_capture' = [stdout_capture EXCEPT ![r] = @ \o eff.out]
       /\ stderr_capture' = [stderr_capture EXCEPT ![r] = @ \o err]
       /\ UNCHANGED << real_stdout, real_stderr >>
       /\ exec_locals' = [exec_locals EXCEPT ![r] = @ \cup eff.bind]
       /\ module_attrs' =
              { x \in module_attrs :
                    \A y \in eff.set : ~(x.module = y.module /\ x.attr = y.attr) }
              \cup eff.set
       /\ observed' = [observed EXCEPT ![r] = @ \cup Readers(r, st)]
       /\ wexc' = [wexc EXCEPT ![r] = eff.raises]
       /\ wpos' = [wpos EXCEPT ![r] = @ + 1]
       /\ worker' = [worker EXCEPT ![r] =
                         IF eff.raises # "none" \/ wpos[r] = Len(stmts)
                         THEN "done" ELSE "running"]
    /\ UNCHANGED << wait_elapsed, code, pc, result, old_stdout, old_stderr,
                    sys_stdout, sys_stderr, exec_globals, exc,
                    timed_out, elapsed >>

\* Line 104: the thread of r runs its next statement.  print writes to
\* whatever sys.stdout is at that moment; an exception ends the thread and
\* threading's excepthook prints the traceback to whatever sys.stderr is.
_execute_with_globals(r) ==
    /\ worker[r] = "running"
    /\ LET stmts == Program[code[r]]
           st    == stmts[wpos[r]]
           eff   == Effect(r, st)
           err   == IF eff.raises # "none" THEN Traceback(eff.raises)
                    ELSE eff.err
       IN
       /\ st.op # "loop"
       /\ stdout_capture' =
              IF sys_stdout = 0 THEN stdout_capture
              ELSE [stdout_capture EXCEPT ![sys_stdout] = @ \o eff.out]
       /\ real_stdout' =
              IF sys_stdout = 0 THEN real_stdout \o eff.out ELSE real_stdout
       /\ stderr_capture' =
              IF sys_stderr = 0 THEN stderr_capture
              ELSE [stderr_capture EXCEPT ![sys_stderr] = @ \o err]
       /\ real_stderr' =
              IF sys_stderr = 0 THEN real_stderr \o err ELSE real_stderr
       /\ exec_locals' = [exec_locals EXCEPT ![r] = @ \cup eff.bind]
       /\ module_attrs' =
              { x \in module_attrs :
                    \A y \in eff.set : ~(x.module = y.module /\ x.attr = y.attr) }
              \cup eff.set
       /\ observed' = [observed EXCEPT ![r] = @ \cup Readers(r, st)]
       /\ wexc' = [wexc EXCEPT ![r] = eff.raises]
       /\ wpos' = [wpos EXCEPT ![r] = @ + 1]
       /\ worker' = [worker EXCEPT ![r] =
                         IF eff.raises # "none" \/ wpos[r] = Len(stmts)
                         THEN "done" ELSE "running"]
    /\ UNCHANGED << wait_elapsed, code, pc, result, old_stdout, old_stderr,
                    sys_stdout, sys_stderr, exec_globals, exc,
                    timed_out, elapsed >>

\* ----------------------------------------------------------------- time
\* One tick of the clock.  Time is counted while a caller waits in join();
\* the other steps of execute_code take none.
Tick ==
    /\ \E r \in Req : pc[r] = "join" /\ elapsed[r] < max_execution_time
    /\ elapsed' = [r \in Req |->
                       IF pc[r] = "join" /\ elapsed[r] < max_execution_time
                       THEN elapsed[r] + 1 ELSE elapsed[r]]
    /\ UNCHANGED << wait_elapsed, code, pc, result, stdout_capture, stderr_capture,
                    old_stdout, old_stderr, sys_stdout, sys_stderr,
                    real_stdout, real_stderr, exec_globals, exec_locals,
                    module_attrs, worker, wpos, wexc, observed, exc, timed_out >>

\* ------------------------------------------------------------------ spec
Next ==
    \/ \E r \in Req, c \in Codes : Call(r, c)
    \/ \E r \in Req : Validate(r)
    \/ \E r \in Req : Build(r)
    \/ \E r \in Req : EnterStdout(r)
    \/ \E r \in Req : EnterStderr(r)
    \/ \E r \in Req : Start(r)
    \/ \E r \in Req : StartFails(r)
    \/ \E r \in Req : Join(r)
    \/ \E r \in Req : IsAlive(r)
    \/ \E r \in Req : ExitStderr(r)
    \/ \E r \in Req : ExitStdout(r)
    \/ \E r \in Req : Assemble(r)
    \/ \E r \in Req : _execute_with_globals(r)
    \/ Tick

Spec == Init /\ [][Next]_vars

\* The steps of the caller of call r after validation, up to the return.
CallerStep(r) ==
    \/ Build(r) \/ EnterStdout(r) \/ EnterStderr(r)
    \/ Start(r) \/ StartFails(r) \/ Join(r) \/ IsAlive(r)
    \/ ExitStderr(r) \/ ExitStdout(r) \/ Assemble(r)

\* The scheduler runs every caller that can take a step, and the clock
\* advances; nothing is assumed of the threads that run the submitted code,
\* nor of clients making calls.  Validate(r) is enabled exactly when
\* pc[r] = "validate" and every Validate(r) step leaves that value, so weak
\* fairness of Validate(r) is []<>(pc[r] # "validate").
FairSpec ==
    /\ Spec
    /\ WF_vars(Tick)
    /\ \A r \in Req : WF_vars(CallerStep(r))
    /\ \A r \in Req : []<>(pc[r] # "validate")

\* ---------------------------------------------------------------- claims
Returned(r) == pc[r] = "returned"

\* The entries of the denylist that the lower-cased text contains.
TermsIn(c) ==
    { i \in 1..Len(dangerous_patterns) : Contains(lower(c), dangerous_patterns[i]) }

DangerousTerms == [c \in Codes |-> TermsIn(c)]

\* C1: a call whose code contains a denylist entry, in any case, anywhere,
\* returns success=false with an error that names an entry the code contains
\* ('import os' when the code contains it), and nothing of the execution
\* happens for it: no namespace, no redirect to its buffers, no thread.
C1_DenylistRejects ==
    \A r \in Req :
        (pc[r] \notin {"idle", "validate"} /\ DangerousTerms[code[r]] # {}) =>
            /\ Returned(r)
            /\ result[r].success = FALSE
            /\ \E i \in DangerousTerms[code[r]] :
                   Contains(result[r].error, dangerous_patterns[i])
            /\ 1 \in DangerousTerms[code[r]]
                   => Contains(result[r].error, dangerous_patterns[1])
            /\ exec_globals[r] = NoGlobals
            /\ worker[r] = "none"
            /\ sys_stdout # r /\ sys_stderr # r
            /\ stdout_capture[r] = <<>> /\ stderr_capture[r] = <<>>

\* C1 witness: upper-case 'Import OS' on a line before a syntax error was rejected
\* with the error naming 'import os'.
C1_Witness ==
    \E r \in Req :
        /\ Returned(r)
        /\ code[r] = JoinLines(<< L_IMPORT_OS, L_unclosed >>)
        /\ result[r].error =
               << "Potentially dangerous operation detected: " >> \o L_import_os

\* C2 (as claimed): when the code passed validation and its thread ended with
\* an exception before the caller's liveness test, the result is
\* success=false, output empty, error the classified message.
C2_RaisedIsClassified ==
    \A r \in Req :
        (Returned(r) /\ wexc[r] # "none" /\ ~timed_out[r]) =>
            /\ result[r].success = FALSE
            /\ result[r].output = <<>>
            /\ result[r].error = Classify(wexc[r])

\* C3 (as claimed): when join() returned with the thread still running, that
\* is, the wait of max_execution_time elapsed before the thread ended, the
\* call returns the timeout result.
C3_WaitElapsedIsTimeout ==
    \A r \in Req :
        (Returned(r) /\ wait_elapsed[r]) =>
            /\ result[r].success = FALSE
            /\ result[r].error =
                   << "Code execution timed out after ",
                      ToString(max_execution_time), " seconds" >>
            /\ result[r].output = <<>>

\* C3 (amended): when the thread is still running at the is_alive() test made
\* after join() returned, the wait of max_execution_time has elapsed and the
\* call returns success=false, exactly the timeout message, and an empty
\* output, whatever its buffers hold.
C3_TimeoutResult ==
    \A r \in Req :
        /\ timed_out[r] => wait_elapsed[r] /\ elapsed[r] >= max_execution_time
        /\ (pc[r] \in {"exit_stderr", "exit_stdout"} /\ worker[r] = "running")
               => timed_out[r]
        /\ (Returned(r) /\ timed_out[r]) =>
               /\ result[r].success = FALSE
               /\ result[r].error =
                      << "Code execution timed out after ",
                         ToString(max_execution_time), " seconds" >>
               /\ result[r].output = <<>>

\* C3 witness: a timed-out call whose stdout buffer holds text.
C3_Witness ==
    \E r \in Req :
        /\ Returned(r) /\ timed_out[r]
        /\ stdout_capture[r] # <<>>
        /\ result[r].output = <<>>

\* C4 (as claimed): once a call has returned, sys.stdout and sys.stderr are
\* not its buffers any more, and with no call in progress they are the
\* streams of the process.
C4_StreamsRestored ==
    \A r \in Req :
        Returned(r) =>
            /\ sys_stdout # r /\ sys_stderr # r
            /\ (\A q \in Req : pc[q] \in {"idle", "returned", "raised"})
                   => sys_stdout = 0 /\ sys_stderr = 0

\* C5 (as claimed): no exception leaves execute_code.
C5_NothingEscapes ==
    \A r \in Req : pc[r] # "raised"

\* The names the statements run so far by the thread of r have bound.
Bound(r) ==
    { Program[code[r]][i].arg :
          i \in { j \in 1..(wpos[r] - 1) : Program[code[r]][j].op = "bind" } }

\* C6: the namespace of a call holds only names its own code has bound, so
\* print(x) alone raises NameError whatever another call has bound.
C6_FreshNamespace ==
    \A r \in Req :
        /\ exec_locals[r] \cup exec_globals[r].user \subseteq Bound(r)
        /\ (code[r] = L_read_x /\ worker[r] = "done") => wexc[r] = "NameError"

\* C6 witness: call 1 has bound x and returned; call 2, print(x), got NameError.
C6_Witness ==
    /\ Returned(1) /\ "x" \in exec_locals[1]
    /\ Returned(2) /\ code[2] = L_read_x /\ wexc[2] = "NameError"

\* C7 (as claimed): the code of a call never reads an attribute that the code
\* of another call has set on an object of its namespace.
C7_NoSharedObjects ==
    \A r \in Req : observed[r] \subseteq {r}

\* C8: the step that assembles a completed run sets output to the captured
\* stdout when that is at most max_output_length long, else to its first
\* max_output_length characters followed by the marker, so never longer than
\* max_output_length plus the marker; and sets error to the whole captured
\* stderr.
C8_Truncation ==
    [][ \A r \in Req :
            (pc[r] = "assemble" /\ pc'[r] = "returned") =>
                /\ result'[r].output =
                       IF Len(stdout_capture[r]) <= max_output_length
                       THEN stdout_capture[r]
                       ELSE SubSeq(stdout_capture[r], 1, max_output_length)
                                \o TruncationMarker
                /\ Len(result'[r].output)
                       <= max_output_length + Len(TruncationMarker)
                /\ result'[r].error = stderr_capture[r] ]_vars

\* C8 witness: a completed run with more than max_output_length characters on
\* both streams: the output is cut and marked, the error is whole.
C8_Witness ==
    \E r \in Req :
        /\ Returned(r) /\ result[r].success
        /\ Len(stdout_capture[r]) > max_output_length
        /\ result[r].output =
               SubSeq(stdout_capture[r], 1, max_output_length) \o TruncationMarker
        /\ Len(result[r].error) > max_output_length
        /\ result[r].error = stderr_capture[r]

\* What a statement that ran without raising wrote to stdout and to stderr.
OutText(st) ==
    CASE st.op = "print"   -> T_hi
      [] st.op = "read"    -> T_one
      [] st.op = "getattr" -> IF st.arg = "pi" THEN T_pi ELSE T_one
      [] OTHER             -> <<>>

ErrText(st) == IF st.op = "print_err" THEN T_err ELSE <<>>

RECURSIVE WrittenOut(_)
WrittenOut(stmts) ==
    IF Len(stmts) = 0 THEN <<>> ELSE OutText(Head(stmts)) \o WrittenOut(Tail(stmts))

RECURSIVE WrittenErr(_)
WrittenErr(stmts) ==
    IF Len(stmts) = 0 THEN <<>> ELSE ErrText(Head(stmts)) \o WrittenErr(Tail(stmts))

\* C9 (as claimed): a validated call whose thread ran all its statements
\* without raising and was found finished returns success=true, output what
\* its code printed (truncated) and error what its code wrote to stderr.
C9_CompletedRun ==
    \A r \in Req :
        (Returned(r) /\ worker[r] = "done" /\ wexc[r] = "none" /\ ~timed_out[r]) =>
            /\ result[r].success = TRUE
            /\ result[r].output = Truncate(WrittenOut(Program[code[r]]))
            /\ result[r].error = WrittenErr(Program[code[r]])

\* C10 (as claimed): 'import math' followed by print(math.pi), run alone and
\* not timed out, returns success=true with the printed text and no error.
C10_AllowedImportRuns ==
    \A r \in Req :
        ( /\ Returned(r) /\ ~timed_out[r]
          /\ code[r] = JoinLines(<< L_import_math, L_print_pi >>)
          /\ \A q \in Req \ {r} : pc[q] = "idle" ) =>
            /\ result[r].success = TRUE
            /\ result[r].output = Truncate(T_pi)
            /\ result[r].error = <<>>


\* C11: a call whose code is empty or holds only whitespace returns
\* success=false with the error exactly 'No code provided'; the test comes
\* first, so nothing is scanned, parsed or run for it.
C11_EmptyRejected ==
    \A r \in Req :
        (pc[r] \notin {"idle", "validate"}
            /\ \A i \in 1..Len(code[r]) : code[r][i] \in {" ", "\n", "\t"}) =>
            /\ Returned(r)
            /\ result[r].success = FALSE
            /\ result[r].error = << "No code provided" >>
            /\ exec_globals[r] = NoGlobals
            /\ worker[r] = "none"

\* C11 witness: a call with the code ' \n' was rejected so.
C11_Witness ==
    \E r \in Req :
        /\ Returned(r)
        /\ code[r] = << " ", "\n" >>
        /\ result[r].error = << "No code provided" >>

C13_FailureShape ==
    \A r \in Req :
        (Returned(r) /\ result[r].success = FALSE) =>
            /\ result[r].output = <<>>
            /\ result[r].error # <<>>

\* C13 witness: two kinds of failure have been returned: a timeout
\* whose buffer held text, and an exception caught in the caller while the
\* other call's code was writing to its buffer.
C13_Witness ==
    \E r, q \in Req :
        /\ Returned(r) /\ ~result[r].success /\ timed_out[r]
        /\ Returned(q) /\ ~result[q].success /\ worker[q] = "none"
        /\ result[q].error = << "Runtime Error: ", "RuntimeError" >>
        /\ stdout_capture[q] # <<>>

\* C14: capture is process-wide, not per worker: what the thread of any call
\* writes goes to the buffer that sys.stdout (sys.stderr) designates at that
\* moment and to no other, its own included; so with two overlapping calls
\* there is an interleaving (the witness) in which text printed by the code of
\* A is in the output of B and not in A's.
C14_ProcessWideCapture ==
    [][ \A r \in Req :
            (worker[r] = "running" /\ wpos'[r] # wpos[r]) =>
                /\ \A q \in Req \ {sys_stdout} :
                       stdout_capture'[q] = stdout_capture[q]
                /\ \A q \in Req \ {sys_stderr} :
                       stderr_capture'[q] = stderr_capture[q]
                /\ sys_stdout # 0 => real_stdout' = real_stdout
                /\ sys_stderr # 0 => real_stderr' = real_stderr ]_vars

\* C14 witness: A ran print('hi') and B ran an assignment, which prints
\* nothing; B completed with 'hi' as its output and A's buffer is empty.
C14_Witness ==
    \E A, B \in Req :
        /\ A # B
        /\ code[A] = L_print_hi /\ wpos[A] = 2 /\ stdout_capture[A] = <<>>
        /\ code[B] = Assign(0)
        /\ Returned(B) /\ result[B].success /\ result[B].output = T_hi

\* C15 (as claimed): once A has returned its timeout result, what the
\* abandoned thread of A writes goes to the buffers of A only: the streams of
\* the process receive nothing, and neither do the buffers of a later call
\* (every call that starts after A returned is later in call order).
C15_LateOutputDetached ==
    [][ \A A \in Req :
            (Returned(A) /\ timed_out[A] /\ worker[A] = "running"
                /\ wpos'[A] # wpos[A]) =>
                /\ real_stdout' = real_stdout
                /\ real_stderr' = real_stderr
                /\ \A B \in Req :
                       B > A => /\ stdout_capture'[B] = stdout_capture[B]
                                /\ stderr_capture'[B] = stderr_capture[B] ]_vars

\* C16 (as claimed): once both calls have returned, in whatever order they
\* entered and left their redirect blocks, sys.stdout and sys.stderr are the
\* streams of the process and not a buffer of either call.
C16_OriginalStreamsAfterBoth ==
    (\A r \in Req : Returned(r)) => (sys_stdout = 0 /\ sys_stderr = 0)

\* C17 (as claimed): every call that has been made eventually returns a result
\* to its caller, whatever its code does.
C17_EventuallyReturns ==
    \A r \in Req : (pc[r] = "validate") ~> Returned(r)

\* C18: a thread is started by the step of line 70 of its own call and by no
\* other, once; it stops being alive only by a step of its own (its code
\* ended or raised), never by a step of a caller, on timeout or later; a call
\* past line 70 has its one thread; and nothing bounds the number of
\* abandoned threads alive at once (the witness has one per call).
C18_NeverCancelled ==
    [][ \A r \in Req :
            /\ (worker[r] = "running" /\ worker'[r] # "running") =>
                   /\ worker'[r] = "done"
                   /\ wpos'[r] = wpos[r] + 1
                   /\ pc' = pc
            /\ (worker[r] # "running" /\ worker'[r] = "running") =>
                   /\ worker[r] = "none"
                   /\ pc[r] = "start" /\ pc'[r] = "join"
            /\ worker'[r] = "none" => worker[r] = "none"
            /\ pc'[r] \in {"join", "is_alive", "assemble"} => worker'[r] # "none"
            /\ pc[r] \in {"idle", "validate", "build", "enter_stdout",
                         "enter_stderr", "start"} => worker[r] = "none" ]_vars

\* C18 witness: every call has returned its timeout result and the thread of
\* every one of them is still running, one of them in an endless loop.
C18_Witness ==
    /\ \A r \in Req : Returned(r) /\ timed_out[r] /\ worker[r] = "running"
    /\ \E r \in Req : code[r] = L_loop

\* The phase of the state machine a call is in.  Executing is the with block
\* of lines 60-76 and what follows it up to the return; a call that an
\* exception has left is in none of the phases of the state machine.
Phase(r) ==
    CASE pc[r] = "idle"     -> "Idle"
      [] pc[r] = "validate" -> "Validating"
      [] pc[r] = "build"    -> "Building"
      [] pc[r] = "raised"   -> "Raised"
      [] pc[r] = "returned" ->
            IF exec_globals[r] = NoGlobals THEN "Rejected"
            ELSE IF timed_out[r] THEN "TimedOut"
            ELSE IF result[r].success THEN "Completed"
            ELSE "Failed"
      [] OTHER              -> "Executing"

PhaseOrder ==
    { << "Idle", "Validating" >>,
      << "Validating", "Rejected" >>, << "Validating", "Building" >>,
      << "Building", "Executing" >>,
      << "Executing", "TimedOut" >>, << "Executing", "Completed" >>,
      << "Executing", "Failed" >> }

\* C19 (as claimed): a call changes phase only along Idle, Validating, then
\* Rejected or Building, then Executing, then TimedOut, Completed or Failed;
\* Building is entered only with a validator result of valid, Executing only
\* with the namespace built, and a call ends in no other way.
C19_PhaseOrder ==
    [][ \A r \in Req :
            Phase(r)' # Phase(r) =>
                /\ << Phase(r), Phase(r)' >> \in PhaseOrder
                /\ Phase(r)' = "Building" => _validate_code(code[r]).valid
                /\ Phase(r)' = "Executing" => exec_globals'[r] # NoGlobals ]_vars

\* The least element of a non-empty set of numbers.
Min(S) == CHOOSE i \in S : \A j \in S : i <= j

\* C20: the validator reports the first failing check of the order empty input,
\* denylist entries in list order, parse: at the step that validates a call,
\* blank code gets 'No code provided'; otherwise code with denylist entries
\* gets the error naming the one first in the list, whatever their order in
\* the text and whether or not the code parses, and the parse decides
\* (SyntaxError or an exception) only for code with no denylist entry.
C20_FirstFailingCheck ==
    [][ \A r \in Req :
            (pc[r] = "validate" /\ pc'[r] # "validate") =>
                LET c     == code[r]
                    terms == DangerousTerms[c]
                IN  IF c = <<>> \/ IsBlank(c)
                    THEN Returned(r)' /\ result'[r].error = << "No code provided" >>
                    ELSE IF terms # {}
                    THEN /\ Returned(r)'
                         /\ result'[r].error =
                                << "Potentially dangerous operation detected: " >>
                                    \o dangerous_patterns[Min(terms)]
                    ELSE /\ compile(c) = "SyntaxError" =>
                                /\ Returned(r)'
                                /\ result'[r].error =
                                       << "Syntax error: ", "invalid syntax" >>
                         /\ compile(c) = "ok" => pc'[r] = "build"
                         /\ pc'[r] = "raised" => compile(c) = "RecursionError" ]_vars

\* C20 witness: code with eval( on its first line and import os on its second
\* was rejected naming 'import os', the earlier entry of the list; and code
\* with a denylist entry whose parse would raise was rejected by the denylist.
C20_Witness ==
    \E r, q \in Req :
        /\ Returned(r) /\ code[r] = JoinLines(<< L_eval, L_import_os >>)
        /\ result[r].error =
               << "Potentially dangerous operation detected: " >> \o L_import_os
        /\ Returned(q)
        /\ code[q] = JoinLines(<< L_import_os, Assign(CompilerRecursionLimit + 1) >>)
        /\ compile(code[q]) = "RecursionError"
        /\ result[q].error =
               << "Potentially dangerous operation detected: " >> \o L_import_os

\* C21: a call past line 56 has a namespace (building it never fails), and the
\* keys of every namespace built are '__builtins__' plus, for each module
\* of allowed_imports the host can import, the last dotted component of its
\* name, the key standing for that module; a module the host lacks has no
\* key; '__builtins__' holds the permitted built-ins only, none of the names
\* that reach outside.
C21_NamespaceKeys ==
    \A r \in Req :
        /\ pc[r] \in {"enter_stdout", "enter_stderr", "start", "join",
                      "is_alive", "exit_stderr", "exit_stdout", "assemble"}
               => exec_globals[r] # NoGlobals
        /\ exec_globals[r] # NoGlobals =>
               /\ DOMAIN exec_globals[r].modules =
                      { m[Len(m)] : m \in { n \in ALLOWED_IMPORTS : n \in installed } }
               /\ \A k \in DOMAIN exec_globals[r].modules :
                      LET m == exec_globals[r].modules[k]
                      IN  m \in ALLOWED_IMPORTS /\ m \in installed /\ m[Len(m)] = k
               /\ exec_globals[r].user = {}
               /\ exec_globals[r].builtins = SAFE_BUILTINS
               /\ exec_globals[r].builtins
                      \cap {"__import__", "open", "eval", "exec", "compile",
                            "getattr", "globals", "input"} = {}

\* C21 witness: on a host without pandas and requests a namespace was built
\* and its code ran: 'pyplot' is a key, 'matplotlib', 'pandas' and 'requests'
\* are not.
C21_Witness ==
    \E r \in Req :
        /\ Returned(r) /\ result[r].success
        /\ << "pandas" >> \notin installed /\ << "requests" >> \notin installed
        /\ "pyplot" \in DOMAIN exec_globals[r].modules
        /\ {"matplotlib", "pandas", "requests"}
               \cap DOMAIN exec_globals[r].modules = {}

\* C22: the result returned for a call that passed validation carries as
\* execution_time the time elapsed since start_time, on every exit path
\* (completed, timed out, exception caught); on the timeout path it is at
\* least max_execution_time, not the initial 0.
C22_ExecutionTime ==
    \A r \in Req :
        (Returned(r) /\ exec_globals[r] # NoGlobals) =>
            /\ result[r].execution_time = elapsed[r]
            /\ timed_out[r] =>
                   /\ result[r].execution_time >= max_execution_time
                   /\ result[r].execution_time # 0

\* C22 witness: a timeout result with execution_time max_execution_time, and
\* a completed result whose caller waited one tick for its thread.
C22_Witness ==
    \E r, q \in Req :
        /\ Returned(r) /\ timed_out[r]
        /\ result[r].execution_time = max_execution_time
        /\ Returned(q) /\ result[q].success
        /\ result[q].execution_time = 1

\* C23: the buffers are read, and success=true is returned, only for a call
\* whose thread was found ended by is_alive(); a thread found ended at that
\* test gives the completed result even when join() had returned with it
\* still running; and with no other call made, nothing is written to the
\* buffers of a call after its success result was assembled.
C23_ReadAfterWorkerEnded ==
    [][ \A r \in Req :
            /\ (pc'[r] = "assemble" \/ (Returned(r)' /\ result'[r].success)) =>
                   worker'[r] = "done" /\ ~timed_out'[r]
            /\ (pc[r] = "is_alive" /\ pc'[r] # "is_alive" /\ worker[r] = "done") =>
                   ~timed_out'[r] /\ exc'[r] = "none"
            /\ (pc[r] = "exit_stdout" /\ pc'[r] # "exit_stdout"
                    /\ ~timed_out[r] /\ exc[r] = "none") => pc'[r] = "assemble"
            /\ (pc[r] = "assemble" /\ pc'[r] # "assemble") =>
                   Returned(r)' /\ result'[r].success
            /\ (Returned(r) /\ result[r].success
                    /\ \A q \in Req \ {r} : pc[q] = "idle") =>
                   /\ stdout_capture'[r] = stdout_capture[r]
                   /\ stderr_capture'[r] = stderr_capture[r] ]_vars

\* C23 witness: join() returned with the thread still running, the thread
\* ended before is_alive() was called, and the call returned success=true
\* with what the thread printed.
C23_Witness ==
    \E r \in Req :
        /\ Returned(r) /\ wait_elapsed[r] /\ ~timed_out[r]
        /\ result[r].success /\ result[r].output = T_hi
        /\ worker[r] = "done"
        /\ \A q \in Req \ {r} : pc[q] = "idle"

====
